---- MODULE Spec2Model ----
(***************************************************************************)
(* Seat lighting controller for an MFRC522 tag reader (ESP32-C3).          *)
(*                                                                         *)
(* The repository holds three firmware variants of the same controller:    *)
(*   relay  : src/src/rfid.cpp lines 1-231   (relays, ownership tracking)  *)
(*   led    : src/src/rfid.cpp lines 232-444 (LEDs, ownership tracking)    *)
(*   toggle : src/unnamed/part_000 (and part_001, the same code with       *)
(*            more comments): LEDs, plain toggle, no ownership             *)
(* Each variant is a setup() and a loop().  The model runs the three       *)
(* variants side by side on the same reader events, so that one poll       *)
(* cycle of the model is one call of loop() in each variant.               *)
(*                                                                         *)
(* A call of loop() is one atomic step.  What it does to the outside       *)
(* (digitalWrite, delay, Serial output, reader calls) is recorded, in      *)
(* program order, in the variant's "Out" variable; the pin levels are the  *)
(* result of applying the digitalWrite calls in that order.                *)
(***************************************************************************)
EXTENDS Naturals, Sequences, FiniteSets

VARIABLES
  pc,        \* "boot": before setup(); "loop": setup() done, loop() is polled
  hist,      \* one entry for setup() and one per loop() call since
  relay,     \* relay variant: the globals of rfid.cpp lines 28-35
  relayPin,  \* relay variant: level of RELAY_1_PIN and RELAY_2_PIN
  relayOut,  \* relay variant: the calls made by the last setup()/loop()
  led,       \* led variant: the globals of rfid.cpp lines 257-264
  ledPin,    \* led variant: level of LED_1_PIN and LED_2_PIN
  ledOut,    \* led variant: the calls made by the last setup()/loop()
  tog,       \* toggle variant: the globals of part_000 lines 27-28
  togPin,    \* toggle variant: level of LED_1_PIN and LED_2_PIN
  togOut,    \* toggle variant: the calls made by the last setup()/loop()
  resetFrom, \* what the last reset interrupted: "none", "free" or "occupied"
  now,            \* the millisecond clock
  alertActive,    \* AlertOverlay.active
  alertMessage,   \* AlertOverlay.message
  alertRaisedAt,  \* AlertOverlay.raisedAt
  display,        \* what the display renders: "status" or "alert"
  checkedAt,      \* the clock value at the last check of the alert's expiry
  eventLog,       \* EventLogBuffer: the lines kept for the display
  diagOut,        \* the plain diagnostic output: every line logged, in order
  cmpA, cmpB,     \* two identities handed to compareUID
  cmp             \* what compareUID and the tests built on it answered

vars == <<pc, hist, relay, relayPin, relayOut, led, ledPin, ledOut,
          tog, togPin, togOut>>

alertVars == <<now, alertActive, alertMessage, alertRaisedAt, display, checkedAt>>

logVars == <<eventLog, diagOut>>

cmpVars == <<cmpA, cmpB, cmp>>

allVars == <<vars, resetFrom, alertVars, logVars, cmpVars>>

\* ------------------------------------------------------------- bounds

\* loop() calls (scans and read misses) followed after one setup()
MaxCycles == 4

\* The clock value, in milliseconds, up to which time is followed
MaxNow == 6000

\* The number of lines logged that is followed
MaxLogged == 7

\* ---------------------------------------------------------- constants

RELAY_1_PIN == 6
RELAY_2_PIN == 7
LED_1_PIN == 2
LED_2_PIN == 3

LOW == "LOW"
HIGH == "HIGH"
Levels == {LOW, HIGH}

\* {0x13, 0xA3, 0x50, 0x11} and {0x03, 0x32, 0xC0, 0x0D}
rfid1UID == <<19, 163, 80, 17>>
rfid2UID == <<3, 50, 192, 13>>

\* byte relayNOwner[4] = {0, 0, 0, 0}
zeroUID == <<0, 0, 0, 0>>

\* The first four bytes of mfrc522.uid.uidByte for the tags presented to the
\* reader: the two configured cards, a card that differs from card 1 in its
\* last byte only, a card that differs from card 2 in its first byte only,
\* and a card whose bytes are all zero (the initial value of the owner
\* arrays).
Tags == {rfid1UID, rfid2UID, <<19, 163, 80, 18>>, <<4, 50, 192, 13>>, zeroUID}

\* What one poll of the reader yields: no card (PICC_IsNewCardPresent is
\* false), a failed read (PICC_ReadCardSerial is false), or a card's uid.
NoCard == "no card"
ReadFail == "read failed"
Misses == {NoCard, ReadFail}

\* ------------------------------------------------- the recorded calls

Wr(p, v) == [op |-> "digitalWrite", pin |-> p, val |-> v, ms |-> 0, text |-> ""]
Dly(n) == [op |-> "delay", pin |-> 0, val |-> "", ms |-> n, text |-> ""]
Say(s) == [op |-> "println", pin |-> 0, val |-> "", ms |-> 0, text |-> s]
HaltA == [op |-> "PICC_HaltA", pin |-> 0, val |-> "", ms |-> 0, text |-> ""]
StopCrypto1 == [op |-> "PCD_StopCrypto1", pin |-> 0, val |-> "", ms |-> 0, text |-> ""]

\* for (int i = 0; i < n; i++) { body }
RECURSIVE Repeat(_, _)
Repeat(n, body) == IF n = 0 THEN <<>> ELSE body \o Repeat(n - 1, body)

\* The pin levels after the digitalWrite calls of evs, made in order
RECURSIVE ApplyWrites(_, _)
ApplyWrites(pins, evs) ==
  IF evs = <<>> THEN pins
  ELSE LET e == Head(evs)
       IN ApplyWrites(IF e.op = "digitalWrite"
                        THEN [pins EXCEPT ![e.pin] = e.val]
                        ELSE pins,
                      Tail(evs))

\* relayNOn ? HIGH : LOW
LevelOf(on) == IF on THEN HIGH ELSE LOW

\* ------------------------------------------------ compareUID, saveOwner

\* A comparison that stops one byte short
RECURSIVE compareFromShort(_, _, _, _)
compareFromShort(uid1, uid2, size, i) ==
  IF i + 1 >= size THEN TRUE
  ELSE IF uid1[i + 1] # uid2[i + 1] THEN FALSE
  ELSE compareFromShort(uid1, uid2, size, i + 1)

compareUIDShort(uid1, uid2, size) == compareFromShort(uid1, uid2, size, 0)

\* The loop of compareUID from index i (the arrays are 1-based here)
RECURSIVE compareFrom(_, _, _, _)
compareFrom(uid1, uid2, size, i) ==
  IF i >= size THEN TRUE
  ELSE IF uid1[i + 1] # uid2[i + 1] THEN FALSE
  ELSE compareFrom(uid1, uid2, size, i + 1)

compareUID(uid1, uid2, size) == compareFrom(uid1, uid2, size, 0)

\* A copy that stops one byte short
saveOwnerShort(destination, source, size) ==
  [i \in 1..Len(destination) |-> IF i < size THEN source[i] ELSE destination[i]]

\* destination after saveOwner(destination, source, size)
saveOwner(destination, source, size) ==
  [i \in 1..Len(destination) |-> IF i <= size THEN source[i] ELSE destination[i]]

\* ---------------------------------------- relay variant (rfid.cpp 1-231)

\* The globals as the initializers of lines 28-35 leave them
RelayInit ==
  [relay1On |-> FALSE, relay2On |-> FALSE,
   relay1Owner |-> zeroUID, relay2Owner |-> zeroUID,
   relay1HasOwner |-> FALSE, relay2HasOwner |-> FALSE]

RelayPins == {RELAY_1_PIN, RELAY_2_PIN}

\* A setup() whose self-test leaves relay 2 energised
RelaySetupOutLeavesOn ==
  << Dly(500),
     Wr(RELAY_1_PIN, LOW), Wr(RELAY_2_PIN, LOW),
     Wr(RELAY_1_PIN, HIGH), Dly(500), Wr(RELAY_1_PIN, LOW),
     Wr(RELAY_2_PIN, HIGH), Dly(500),
     Say("System ready!") >>

\* The calls of setup()
RelaySetupOut ==
  << Dly(500),
     Say("--- Building Lighting Management System ---"),
     Wr(RELAY_1_PIN, LOW), Wr(RELAY_2_PIN, LOW),
     Say("Testing relays..."),
     Wr(RELAY_1_PIN, HIGH), Dly(500), Wr(RELAY_1_PIN, LOW),
     Wr(RELAY_2_PIN, HIGH), Dly(500), Wr(RELAY_2_PIN, LOW),
     Say("System ready!"),
     Say("Scan your RFID tag to control the lights"),
     Say("Current status:"), Say("Seat 1: Free"), Say("Seat 2: Free") >>

\* bool isRelay1Owner = relay1HasOwner && compareUID(relay1Owner, uidByte, 4)
isRelay1Owner(g, uid) == g.relay1HasOwner /\ compareUID(g.relay1Owner, uid, 4)

\* bool isRelay2Owner = relay2HasOwner && compareUID(relay2Owner, uidByte, 4)
isRelay2Owner(g, uid) == g.relay2HasOwner /\ compareUID(g.relay2Owner, uid, 4)

\* bool isAuthorizedCard = compareUID(rfid1UID, ...) || compareUID(rfid2UID, ...)
isAuthorizedCard(uid) ==
  compareUID(rfid1UID, uid, 4) \/ compareUID(rfid2UID, uid, 4)

\* A release of seat 1 that leaves the ownership flag set
RelayRelease1KeepsOwner(g) ==
  [g  |-> [g EXCEPT !.relay1On = FALSE],
   ev |-> << Wr(RELAY_1_PIN, LOW),
             Say("Relay 1 is now OFF"), Say("User has left Seat 1.") >>]

\* A release of seat 1 that does not switch the relay off
RelayRelease1NoWrite(g) ==
  [g  |-> [g EXCEPT !.relay1On = FALSE, !.relay1HasOwner = FALSE],
   ev |-> << Say("Relay 1 is now OFF"), Say("User has left Seat 1.") >>]

\* if (isRelay1Owner) { ... }
RelayRelease1(g) ==
  [g  |-> [g EXCEPT !.relay1On = FALSE, !.relay1HasOwner = FALSE],
   ev |-> << Wr(RELAY_1_PIN, LOW),
             Say("Relay 1 is now OFF"), Say("User has left Seat 1.") >>]

\* A release of seat 2 that gives no feedback
RelayRelease2Silent(g) ==
  [g  |-> [g EXCEPT !.relay2On = FALSE, !.relay2HasOwner = FALSE],
   ev |-> << Wr(RELAY_2_PIN, LOW) >>]

\* else if (isRelay2Owner) { ... }
RelayRelease2(g) ==
  [g  |-> [g EXCEPT !.relay2On = FALSE, !.relay2HasOwner = FALSE],
   ev |-> << Wr(RELAY_2_PIN, LOW),
             Say("Relay 2 is now OFF"), Say("User has left Seat 2.") >>]

\* A claim of seat 1 that records the owner for both seats
RelayClaim1Both(g, uid) ==
  [g  |-> [g EXCEPT !.relay1On = TRUE, !.relay1HasOwner = TRUE,
                    !.relay1Owner = saveOwner(g.relay1Owner, uid, 4),
                    !.relay2On = TRUE, !.relay2HasOwner = TRUE,
                    !.relay2Owner = saveOwner(g.relay2Owner, uid, 4)],
   ev |-> << Wr(RELAY_1_PIN, HIGH), Wr(RELAY_2_PIN, HIGH),
             Say("Relay 1 is now ON"), Say("Seat 1 assigned to user.") >>]

\* A claim of seat 1 that does not switch the relay on
RelayClaim1NoWrite(g, uid) ==
  [g  |-> [g EXCEPT !.relay1On = TRUE, !.relay1HasOwner = TRUE,
                    !.relay1Owner = saveOwner(g.relay1Owner, uid, 4)],
   ev |-> << Say("Relay 1 is now ON"), Say("Seat 1 assigned to user.") >>]

\* if (!relay1On) { ... }
RelayClaim1(g, uid) ==
  [g  |-> [g EXCEPT !.relay1On = TRUE, !.relay1HasOwner = TRUE,
                    !.relay1Owner = saveOwner(g.relay1Owner, uid, 4)],
   ev |-> << Wr(RELAY_1_PIN, HIGH),
             Say("Relay 1 is now ON"), Say("Seat 1 assigned to user.") >>]

\* if (!relay2On) { ... }
RelayClaim2(g, uid) ==
  [g  |-> [g EXCEPT !.relay2On = TRUE, !.relay2HasOwner = TRUE,
                    !.relay2Owner = saveOwner(g.relay2Owner, uid, 4)],
   ev |-> << Wr(RELAY_2_PIN, HIGH),
             Say("Relay 2 is now ON"), Say("Seat 2 assigned to user.") >>]

\* else { "Seat 1 is already occupied." ... } with its flash and final write
RelayConflict1(g) ==
  [g  |-> g,
   ev |-> << Say("Seat 1 is already occupied.") >>
          \o Repeat(2, << Wr(RELAY_1_PIN, LOW), Dly(100),
                          Wr(RELAY_1_PIN, HIGH), Dly(100) >>)
          \o << Wr(RELAY_1_PIN, HIGH) >>]

\* else { "Seat 2 is already occupied." ... } with its flash and final write
RelayConflict2(g) ==
  [g  |-> g,
   ev |-> << Say("Seat 2 is already occupied.") >>
          \o Repeat(2, << Wr(RELAY_2_PIN, LOW), Dly(100),
                          Wr(RELAY_2_PIN, HIGH), Dly(100) >>)
          \o << Wr(RELAY_2_PIN, HIGH) >>]

\* An unauthorized branch that frees seat 1 when it restores the relays
RelayUnauthorizedClears(g) ==
  [g  |-> [g EXCEPT !.relay1On = FALSE, !.relay1HasOwner = FALSE],
   ev |-> << Say("Unknown RFID tag - Access denied") >>
          \o Repeat(3, << Wr(RELAY_1_PIN, HIGH), Wr(RELAY_2_PIN, HIGH), Dly(100),
                          Wr(RELAY_1_PIN, LOW), Wr(RELAY_2_PIN, LOW), Dly(100) >>)
          \o << Wr(RELAY_1_PIN, LOW), Wr(RELAY_2_PIN, LevelOf(g.relay2On)) >>]

\* else { "Unknown RFID tag - Access denied" ... }
RelayUnauthorized(g) ==
  [g  |-> g,
   ev |-> << Say("Unknown RFID tag - Access denied") >>
          \o IF g.relay1On /\ g.relay2On
               THEN << Say("All seats are currently occupied.") >>
               ELSE Repeat(3, << Wr(RELAY_1_PIN, HIGH), Wr(RELAY_2_PIN, HIGH),
                                 Dly(100),
                                 Wr(RELAY_1_PIN, LOW), Wr(RELAY_2_PIN, LOW),
                                 Dly(100) >>)
                    \o << Wr(RELAY_1_PIN, LevelOf(g.relay1On)),
                          Wr(RELAY_2_PIN, LevelOf(g.relay2On)) >>]

\* A claim path that gives an authorized card whichever seat is free
RelayAuthorizedAnySeat(g, uid) ==
  IF ~g.relay1On THEN RelayClaim1(g, uid)
  ELSE IF ~g.relay2On THEN RelayClaim2(g, uid)
  ELSE RelayConflict1(g)

\* The claim path: which card, then whether its seat is free
RelayAuthorized(g, uid) ==
  IF compareUID(rfid1UID, uid, 4)
    THEN IF ~g.relay1On THEN RelayClaim1(g, uid) ELSE RelayConflict1(g)
  ELSE IF compareUID(rfid2UID, uid, 4)
    THEN IF ~g.relay2On THEN RelayClaim2(g, uid) ELSE RelayConflict2(g)
  ELSE [g |-> g, ev |-> <<>>]

\* A dispatch that tests the authorization before the ownership
RelayDispatchClaimFirst(g, uid) ==
  IF isAuthorizedCard(uid) THEN RelayAuthorized(g, uid)
  ELSE IF isRelay1Owner(g, uid) THEN RelayRelease1(g)
  ELSE IF isRelay2Owner(g, uid) THEN RelayRelease2(g)
  ELSE RelayUnauthorized(g)

\* The if / else if chain of loop(), lines 124-218
RelayDispatch(g, uid) ==
  IF isRelay1Owner(g, uid) THEN RelayRelease1(g)
  ELSE IF isRelay2Owner(g, uid) THEN RelayRelease2(g)
  ELSE IF isAuthorizedCard(uid) THEN RelayAuthorized(g, uid)
  ELSE RelayUnauthorized(g)

\* A loop() that returns from the unauthorized branch without ending the
\* tag session
RelayLoopEarlyReturn(g, uid) ==
  LET d == RelayDispatch(g, uid)
  IN [g  |-> d.g,
      ev |-> << Say("Card scanned - UID:") >>
             \o d.ev
             \o IF isRelay1Owner(g, uid) \/ isRelay2Owner(g, uid)
                   \/ isAuthorizedCard(uid)
                  THEN << Say("Current status:"),
                          Say(IF d.g.relay1On THEN "Seat 1: Occupied"
                                              ELSE "Seat 1: Free"),
                          Say(IF d.g.relay2On THEN "Seat 2: Occupied"
                                              ELSE "Seat 2: Free"),
                          HaltA, StopCrypto1, Dly(1000) >>
                  ELSE <<>>]

\* loop() once a card was read: the uid line, the dispatch, the status
\* report, the end of the tag session and the debounce delay
RelayLoopNoDebounce(g, uid) ==
  LET d == RelayDispatch(g, uid)
  IN [g  |-> d.g,
      ev |-> << Say("Card scanned - UID:") >>
             \o d.ev
             \o << Say("Current status:"),
                   Say(IF d.g.relay1On THEN "Seat 1: Occupied" ELSE "Seat 1: Free"),
                   Say(IF d.g.relay2On THEN "Seat 2: Occupied" ELSE "Seat 2: Free"),
                   HaltA, StopCrypto1 >>]

RelayLoop(g, uid) ==
  LET d == RelayDispatch(g, uid)
  IN [g  |-> d.g,
      ev |-> << Say("Card scanned - UID:") >>
             \o d.ev
             \o << Say("Current status:"),
                   Say(IF d.g.relay1On THEN "Seat 1: Occupied" ELSE "Seat 1: Free"),
                   Say(IF d.g.relay2On THEN "Seat 2: Occupied" ELSE "Seat 2: Free"),
                   HaltA, StopCrypto1, Dly(1000) >>]

\* --------------------------------------- led variant (rfid.cpp 232-444)

\* The globals as the initializers of lines 257-264 leave them
LedInit ==
  [led1On |-> FALSE, led2On |-> FALSE,
   led1Owner |-> zeroUID, led2Owner |-> zeroUID,
   led1HasOwner |-> FALSE, led2HasOwner |-> FALSE]

LedPins == {LED_1_PIN, LED_2_PIN}

\* The calls of setup()
LedSetupOut ==
  << Dly(500),
     Say("--- Building Lighting Management System ---"),
     Wr(LED_1_PIN, LOW), Wr(LED_2_PIN, LOW),
     Say("Testing LEDs..."),
     Wr(LED_1_PIN, HIGH), Dly(500), Wr(LED_1_PIN, LOW),
     Wr(LED_2_PIN, HIGH), Dly(500), Wr(LED_2_PIN, LOW),
     Say("System ready!"),
     Say("Scan your RFID tag to control the lights") >>

\* bool isLed1Owner = led1HasOwner && compareUID(led1Owner, uidByte, 4)
isLed1Owner(g, uid) == g.led1HasOwner /\ compareUID(g.led1Owner, uid, 4)

\* bool isLed2Owner = led2HasOwner && compareUID(led2Owner, uidByte, 4)
isLed2Owner(g, uid) == g.led2HasOwner /\ compareUID(g.led2Owner, uid, 4)

\* if (isLed1Owner) { ... }
LedRelease1(g) ==
  [g  |-> [g EXCEPT !.led1On = FALSE, !.led1HasOwner = FALSE],
   ev |-> << Wr(LED_1_PIN, LOW),
             Say("LED 1 is now OFF"), Say("User has left Seat 1.") >>]

\* else if (isLed2Owner) { ... }
LedRelease2(g) ==
  [g  |-> [g EXCEPT !.led2On = FALSE, !.led2HasOwner = FALSE],
   ev |-> << Wr(LED_2_PIN, LOW),
             Say("LED 2 is now OFF"), Say("User has left Seat 2.") >>]

\* if (!led1On) { ... }
LedClaim1(g, uid) ==
  [g  |-> [g EXCEPT !.led1On = TRUE, !.led1HasOwner = TRUE,
                    !.led1Owner = saveOwner(g.led1Owner, uid, 4)],
   ev |-> << Wr(LED_1_PIN, HIGH),
             Say("LED 1 is now ON"), Say("Seat 1 assigned to user.") >>]

\* if (!led2On) { ... }
LedClaim2(g, uid) ==
  [g  |-> [g EXCEPT !.led2On = TRUE, !.led2HasOwner = TRUE,
                    !.led2Owner = saveOwner(g.led2Owner, uid, 4)],
   ev |-> << Wr(LED_2_PIN, HIGH),
             Say("LED 2 is now ON"), Say("Seat 2 assigned to user.") >>]

\* else { "Seat 1 is already occupied." ... }: the flash, no write after it
LedConflict1(g) ==
  [g  |-> g,
   ev |-> << Say("Seat 1 is already occupied.") >>
          \o Repeat(2, << Wr(LED_1_PIN, LOW), Dly(100),
                          Wr(LED_1_PIN, HIGH), Dly(100) >>)]

\* else { "Seat 2 is already occupied." ... }: the flash, no write after it
LedConflict2(g) ==
  [g  |-> g,
   ev |-> << Say("Seat 2 is already occupied.") >>
          \o Repeat(2, << Wr(LED_2_PIN, LOW), Dly(100),
                          Wr(LED_2_PIN, HIGH), Dly(100) >>)]

\* else { "Unknown RFID tag - Access denied" ... }
LedUnauthorized(g) ==
  [g  |-> g,
   ev |-> << Say("Unknown RFID tag - Access denied") >>
          \o IF g.led1On /\ g.led2On
               THEN << Say("All seats are currently occupied.") >>
               ELSE Repeat(3, << Wr(LED_1_PIN, HIGH), Wr(LED_2_PIN, HIGH),
                                 Dly(100),
                                 Wr(LED_1_PIN, LOW), Wr(LED_2_PIN, LOW),
                                 Dly(100) >>)
                    \o << Wr(LED_1_PIN, LevelOf(g.led1On)),
                          Wr(LED_2_PIN, LevelOf(g.led2On)) >>]

\* The claim path: which card, then whether its seat is free
LedAuthorized(g, uid) ==
  IF compareUID(rfid1UID, uid, 4)
    THEN IF ~g.led1On THEN LedClaim1(g, uid) ELSE LedConflict1(g)
  ELSE IF compareUID(rfid2UID, uid, 4)
    THEN IF ~g.led2On THEN LedClaim2(g, uid) ELSE LedConflict2(g)
  ELSE [g |-> g, ev |-> <<>>]

\* The if / else if chain of loop(), lines 344-436
LedDispatch(g, uid) ==
  IF isLed1Owner(g, uid) THEN LedRelease1(g)
  ELSE IF isLed2Owner(g, uid) THEN LedRelease2(g)
  ELSE IF isAuthorizedCard(uid) THEN LedAuthorized(g, uid)
  ELSE LedUnauthorized(g)

\* loop() once a card was read: the uid line, the dispatch, the end of the
\* tag session and the debounce delay
LedLoop(g, uid) ==
  LET d == LedDispatch(g, uid)
  IN [g  |-> d.g,
      ev |-> << Say("Card scanned - UID: ") >>
             \o d.ev
             \o << HaltA, StopCrypto1, Dly(1000) >>]

\* ------------------------------------ toggle variant (part_000, part_001)

\* bool led1On = false; bool led2On = false;
TogInit == [led1On |-> FALSE, led2On |-> FALSE]

\* The calls of setup()
TogSetupOut ==
  << Dly(500),
     Say("--- Building Lighting Management System ---"),
     Wr(LED_1_PIN, LOW), Wr(LED_2_PIN, LOW),
     Say("Testing LEDs..."),
     Wr(LED_1_PIN, HIGH), Dly(500), Wr(LED_1_PIN, LOW),
     Wr(LED_2_PIN, HIGH), Dly(500), Wr(LED_2_PIN, LOW),
     Say("System ready!"),
     Say("Scan your RFID tag to control the lights") >>

\* if (compareUID(rfid1UID, uidByte, 4)) { led1On = !led1On; ... }
TogToggle1(g) ==
  LET on == ~g.led1On
  IN [g  |-> [g EXCEPT !.led1On = on],
      ev |-> << Wr(LED_1_PIN, LevelOf(on)),
                Say(IF on THEN "LED 1 is now ON" ELSE "LED 1 is now OFF"),
                Say(IF on THEN "Seat 1 assigned to user."
                          ELSE "User has left Seat 1.") >>]

\* else if (compareUID(rfid2UID, uidByte, 4)) { led2On = !led2On; ... }
TogToggle2(g) ==
  LET on == ~g.led2On
  IN [g  |-> [g EXCEPT !.led2On = on],
      ev |-> << Wr(LED_2_PIN, LevelOf(on)),
                Say(IF on THEN "LED 2 is now ON" ELSE "LED 2 is now OFF"),
                Say(IF on THEN "Seat 2 assigned to user."
                          ELSE "User has left Seat 2.") >>]

\* else { "Unknown RFID tag - Access denied" ... }: three pulses that end
\* with both LEDs LOW; nothing is written after the loop
TogUnknown(g) ==
  [g  |-> g,
   ev |-> << Say("Unknown RFID tag - Access denied") >>
          \o Repeat(3, << Wr(LED_1_PIN, HIGH), Wr(LED_2_PIN, HIGH), Dly(100),
                          Wr(LED_1_PIN, LOW), Wr(LED_2_PIN, LOW), Dly(100) >>)]

\* The if / else if chain of loop(), lines 91-132
TogDispatch(g, uid) ==
  IF compareUID(rfid1UID, uid, 4) THEN TogToggle1(g)
  ELSE IF compareUID(rfid2UID, uid, 4) THEN TogToggle2(g)
  ELSE TogUnknown(g)

\* loop() once a card was read
TogLoop(g, uid) ==
  LET d == TogDispatch(g, uid)
  IN [g  |-> d.g,
      ev |-> << Say("Card scanned - UID: ") >>
             \o d.ev
             \o << HaltA, StopCrypto1, Dly(1000) >>]

\* ------------------------------------------------------------ actions

\* The state once the globals are constructed and before setup() has run:
\* the pins are not driven yet, so their level is not known.
Init ==
  /\ pc = "boot"
  /\ hist = <<>>
  /\ relay = RelayInit
  /\ relayPin \in [RelayPins -> Levels]
  /\ relayOut = <<>>
  /\ led = LedInit
  /\ ledPin \in [LedPins -> Levels]
  /\ ledOut = <<>>
  /\ tog = TogInit
  /\ togPin \in [LedPins -> Levels]
  /\ togOut = <<>>

\* What hist keeps of a completed call: its kind ("setup", "scan" or the kind
\* of read miss), the uid read (of a scan; zeroUID otherwise) and the state
\* each variant was left in
Entry(kind, uid, r, rp, ro, l, lp, lo, t, tp, to) ==
  [kind |-> kind, uid |-> uid,
   relay |-> r, relayPin |-> rp, relayOut |-> ro,
   led |-> l, ledPin |-> lp, ledOut |-> lo,
   tog |-> t, togPin |-> tp, togOut |-> to]

\* setup() of each variant
Setup ==
  /\ pc = "boot"
  /\ pc' = "loop"
  /\ relayOut' = RelaySetupOut
  /\ relayPin' = ApplyWrites(relayPin, RelaySetupOut)
  /\ ledOut' = LedSetupOut
  /\ ledPin' = ApplyWrites(ledPin, LedSetupOut)
  /\ togOut' = TogSetupOut
  /\ togPin' = ApplyWrites(togPin, TogSetupOut)
  /\ hist' = << Entry("setup", zeroUID, relay, relayPin', relayOut',
                      led, ledPin', ledOut', tog, togPin', togOut') >>
  /\ UNCHANGED <<relay, led, tog>>

\* A loop() that does not return on a miss and dispatches the uid buffer,
\* which still holds its initial zero bytes
LoopMissFallsThrough ==
  /\ pc = "loop"
  /\ Len(hist) <= MaxCycles
  /\ \E m \in Misses :
       LET r == RelayLoop(relay, zeroUID)
           l == LedLoop(led, zeroUID)
           t == TogLoop(tog, zeroUID)
       IN /\ relay' = r.g
          /\ relayOut' = r.ev
          /\ relayPin' = ApplyWrites(relayPin, r.ev)
          /\ led' = l.g
          /\ ledOut' = l.ev
          /\ ledPin' = ApplyWrites(ledPin, l.ev)
          /\ tog' = t.g
          /\ togOut' = t.ev
          /\ togPin' = ApplyWrites(togPin, t.ev)
          /\ hist' = Append(hist, Entry(m, zeroUID,
                                        relay', relayPin', relayOut',
                                        led', ledPin', ledOut',
                                        tog', togPin', togOut'))
  /\ UNCHANGED pc

\* loop() when no card is present or the read fails: it returns at once
LoopMiss ==
  /\ pc = "loop"
  /\ Len(hist) <= MaxCycles
  /\ \E m \in Misses :
       hist' = Append(hist, Entry(m, zeroUID, relay, relayPin, <<>>,
                                  led, ledPin, <<>>, tog, togPin, <<>>))
  /\ relayOut' = <<>>
  /\ ledOut' = <<>>
  /\ togOut' = <<>>
  /\ UNCHANGED <<pc, relay, relayPin, led, ledPin, tog, togPin>>

\* loop() when a card was read
LoopScan ==
  /\ pc = "loop"
  /\ Len(hist) <= MaxCycles
  /\ \E uid \in Tags :
       LET r == RelayLoop(relay, uid)
           l == LedLoop(led, uid)
           t == TogLoop(tog, uid)
       IN /\ relay' = r.g
          /\ relayOut' = r.ev
          /\ relayPin' = ApplyWrites(relayPin, r.ev)
          /\ led' = l.g
          /\ ledOut' = l.ev
          /\ ledPin' = ApplyWrites(ledPin, l.ev)
          /\ tog' = t.g
          /\ togOut' = t.ev
          /\ togPin' = ApplyWrites(togPin, t.ev)
          /\ hist' = Append(hist, Entry("scan", uid,
                                        relay', relayPin', relayOut',
                                        led', ledPin', ledOut',
                                        tog', togPin', togOut'))
  /\ UNCHANGED pc

\* A reset or power cycle: the globals are constructed again and the pins
\* are not driven until setup() runs
Restart ==
  /\ pc = "loop"
  /\ pc' = "boot"
  /\ hist' = <<>>
  /\ relay' = RelayInit
  /\ relayPin' \in [RelayPins -> Levels]
  /\ relayOut' = <<>>
  /\ led' = LedInit
  /\ ledPin' \in [LedPins -> Levels]
  /\ ledOut' = <<>>
  /\ tog' = TogInit
  /\ togPin' \in [LedPins -> Levels]
  /\ togOut' = <<>>

Next == Setup \/ LoopMiss \/ LoopScan \/ Restart

\* ------------------------------------- alert overlay (spec sections 3, 4.4)

ALERT_DURATION == 3000

\* The alerts the dispatcher raises
AlertMessages ==
  { <<"Seat taken", "already occupied">>,
    <<"Access denied", "unauthorized">>,
    <<"Access denied", "all occupied">> }

\* The time that passes between two looks at the clock: a poll, the pulses
\* of a flash, the debounce delay
Steps == {500, 1000}

\* An expiry test that lets an alert live one instant too long
AlertExpiredStrict(t, raisedAt) == t - raisedAt > ALERT_DURATION

\* now - raisedAt >= ALERT_DURATION
AlertExpired(t, raisedAt) == t - raisedAt >= ALERT_DURATION

AlertInit ==
  /\ now = 0
  /\ alertActive = FALSE
  /\ alertMessage = <<"", "">>
  /\ alertRaisedAt = 0
  /\ display = "status"
  /\ checkedAt = 0

\* Time passes
ClockAdvance ==
  /\ \E d \in Steps : now + d <= MaxNow /\ now' = now + d
  /\ UNCHANGED <<alertActive, alertMessage, alertRaisedAt, display, checkedAt>>

\* tick(now): an active alert whose duration has elapsed is cleared and the
\* display renders the normal status again
AlertTick ==
  /\ checkedAt' = now
  /\ IF alertActive /\ AlertExpired(now, alertRaisedAt)
       THEN alertActive' = FALSE /\ display' = "status"
       ELSE UNCHANGED <<alertActive, display>>
  /\ UNCHANGED <<now, alertMessage, alertRaisedAt>>

\* raiseAlert(line1, line2): the expiry of the current alert is checked,
\* then the new alert overwrites whatever is there (last alert wins)
RaiseAlert ==
  /\ \E m \in AlertMessages : alertMessage' = m
  /\ checkedAt' = now
  /\ alertActive' = TRUE
  /\ alertRaisedAt' = now
  /\ display' = "alert"
  /\ UNCHANGED now

AlertNext == ClockAdvance \/ AlertTick \/ RaiseAlert

\* ---------------------------------------- event log (spec sections 3, 4.4)

\* Capacity of the EventLogBuffer
K == 5

\* The status lines the dispatcher logs
LogLines == {"assigned", "released", "access denied"}

\* A log that never evicts
logNoEvict(buf, line) == Append(buf, line)

\* log(line) on the buffer buf: the oldest line is evicted if buf is at
\* capacity, then line is appended
log(buf, line) ==
  IF Len(buf) >= K THEN Append(Tail(buf), line) ELSE Append(buf, line)

LogInit == eventLog = <<>> /\ diagOut = <<>>

\* log(line): into the buffer, and mirrored to the diagnostic output
Log ==
  /\ Len(diagOut) < MaxLogged
  /\ \E line \in LogLines :
       /\ eventLog' = log(eventLog, line)
       /\ diagOut' = Append(diagOut, line)

\* ------------------------------------------- compareUID on arbitrary inputs

\* Byte values and the 4-byte identities built of them, with the tags
CmpBytes == {0, 19, 255}
CmpIds == {<<a, b, c, d>> : a \in CmpBytes, b \in CmpBytes,
                            c \in CmpBytes, d \in CmpBytes} \cup Tags

\* Nothing compared yet
CmpUnset ==
  [done |-> FALSE, eq |-> FALSE, sym |-> FALSE, refl |-> FALSE,
   owner1 |-> FALSE, owner2 |-> FALSE, auth |-> FALSE]

CmpIdle == cmpA = zeroUID /\ cmpB = zeroUID /\ cmp = CmpUnset

\* compareUID(cmpA, cmpB, 4) and the tests of loop() built on it: the owner
\* tests with cmpA stored as the owner of a seat and cmpB scanned, and the
\* authorization test of cmpB
Compare ==
  /\ ~cmp.done
  /\ cmp' =
       [done |-> TRUE,
        eq |-> compareUID(cmpA, cmpB, 4),
        sym |-> compareUID(cmpB, cmpA, 4),
        refl |-> compareUID(cmpA, cmpA, 4) /\ compareUID(cmpB, cmpB, 4),
        owner1 |-> isRelay1Owner([RelayInit EXCEPT !.relay1On = TRUE,
                                    !.relay1HasOwner = TRUE,
                                    !.relay1Owner = cmpA], cmpB),
        owner2 |-> isRelay2Owner([RelayInit EXCEPT !.relay2On = TRUE,
                                    !.relay2HasOwner = TRUE,
                                    !.relay2Owner = cmpA], cmpB),
        auth |-> isAuthorizedCard(cmpB)]
  /\ UNCHANGED <<cmpA, cmpB>>

\* ------------------------------------------------------ specifications

\* What a step of the controller leaves of the reset record: a reset notes
\* whether a seat was occupied when it came
ResetRecord ==
  resetFrom' =
    IF pc = "loop" /\ pc' = "boot"
      THEN IF relay.relay1On \/ relay.relay2On THEN "occupied" ELSE "free"
      ELSE resetFrom

\* A step of the controller; the alert overlay is not part of its code
ControllerNext ==
  \/ Setup /\ ResetRecord /\ UNCHANGED <<alertVars, logVars, cmpVars>>
  \/ LoopMiss /\ ResetRecord /\ UNCHANGED <<alertVars, logVars, cmpVars>>
  \/ LoopScan /\ ResetRecord /\ UNCHANGED <<alertVars, logVars, cmpVars>>
  \/ Restart /\ ResetRecord /\ UNCHANGED <<alertVars, logVars, cmpVars>>

\* The controller before setup(), no reset yet, the alert overlay idle
ControllerInit ==
  Init /\ resetFrom = "none" /\ AlertInit /\ LogInit /\ CmpIdle

\* The seat controller: setup() and loop() of the three variants
Spec == ControllerInit /\ [][ControllerNext]_allVars

\* The controller at rest, before setup()
Parked ==
  /\ pc = "boot" /\ hist = <<>>
  /\ relay = RelayInit /\ relayPin = [p \in RelayPins |-> LOW] /\ relayOut = <<>>
  /\ led = LedInit /\ ledPin = [p \in LedPins |-> LOW] /\ ledOut = <<>>
  /\ tog = TogInit /\ togPin = [p \in LedPins |-> LOW] /\ togOut = <<>>
  /\ resetFrom = "none"

OverlayNext ==
  \/ ClockAdvance /\ UNCHANGED <<vars, resetFrom, logVars, cmpVars>>
  \/ AlertTick /\ UNCHANGED <<vars, resetFrom, logVars, cmpVars>>
  \/ RaiseAlert /\ UNCHANGED <<vars, resetFrom, logVars, cmpVars>>

\* The alert overlay idle at time 0, the controller at rest
OverlayInit == Parked /\ AlertInit /\ LogInit /\ CmpIdle

\* The alert overlay and the clock
SpecAlert == OverlayInit /\ [][OverlayNext]_allVars

LogNext == Log /\ UNCHANGED <<vars, resetFrom, alertVars, cmpVars>>

\* The event log empty, everything else at rest
EventLogInit == Parked /\ AlertInit /\ LogInit /\ CmpIdle

\* The event log
SpecLog == EventLogInit /\ [][LogNext]_allVars

CompareNext == Compare /\ UNCHANGED <<vars, resetFrom, alertVars, logVars>>

\* Any two identities to compare, everything else at rest
CompareInit ==
  /\ Parked /\ AlertInit /\ LogInit
  /\ cmpA \in CmpIds /\ cmpB \in CmpIds /\ cmp = CmpUnset

\* compareUID applied to every pair of identities of CmpIds
SpecCompare == CompareInit /\ [][CompareNext]_allVars

\* ------------------------------------------- vocabulary of the properties

\* The variants that track an owner, and all variants
OwnerVariants == {"relay", "led"}
Variants == {"relay", "led", "toggle"}
Seats == {1, 2}

\* The AuthorizedSet: the identity entitled to each seat
AuthorizedSet == {rfid1UID, rfid2UID}
EntitledTo(R) == IF R = 1 THEN rfid1UID ELSE rfid2UID

\* The present state, in the shape of a hist entry
Now ==
  Entry("now", zeroUID, relay, relayPin, relayOut, led, ledPin, ledOut,
        tog, togPin, togOut)

\* Seat R of variant v in entry e: occupied flag, owner flag, owner bytes,
\* actuator level, and the calls of the handler that produced e
Occupied(v, e, R) ==
  CASE v = "relay" -> IF R = 1 THEN e.relay.relay1On ELSE e.relay.relay2On
    [] v = "led" -> IF R = 1 THEN e.led.led1On ELSE e.led.led2On
    [] v = "toggle" -> IF R = 1 THEN e.tog.led1On ELSE e.tog.led2On

HasOwner(v, e, R) ==
  CASE v = "relay" -> IF R = 1 THEN e.relay.relay1HasOwner
                               ELSE e.relay.relay2HasOwner
    [] v = "led" -> IF R = 1 THEN e.led.led1HasOwner ELSE e.led.led2HasOwner

OwnerBytes(v, e, R) ==
  CASE v = "relay" -> IF R = 1 THEN e.relay.relay1Owner ELSE e.relay.relay2Owner
    [] v = "led" -> IF R = 1 THEN e.led.led1Owner ELSE e.led.led2Owner

PinOf(v, R) ==
  IF v = "relay" THEN (IF R = 1 THEN RELAY_1_PIN ELSE RELAY_2_PIN)
                 ELSE (IF R = 1 THEN LED_1_PIN ELSE LED_2_PIN)

Actuator(v, e, R) ==
  CASE v = "relay" -> e.relayPin[PinOf(v, R)]
    [] v = "led" -> e.ledPin[PinOf(v, R)]
    [] v = "toggle" -> e.togPin[PinOf(v, R)]

OutOf(v, e) ==
  CASE v = "relay" -> e.relayOut
    [] v = "led" -> e.ledOut
    [] v = "toggle" -> e.togOut

\* ownerIs(R, id) of the spec: occupied by exactly the identity id
OwnerIs(v, e, R, id) == HasOwner(v, e, R) /\ OwnerBytes(v, e, R) = id

Said(out, s) == \E i \in DOMAIN out : out[i].op = "println" /\ out[i].text = s
Wrote(out, p) == \E i \in DOMAIN out : out[i].op = "digitalWrite" /\ out[i].pin = p

ReleaseMsg(R) == IF R = 1 THEN "User has left Seat 1." ELSE "User has left Seat 2."
ClaimMsg(R) == IF R = 1 THEN "Seat 1 assigned to user." ELSE "Seat 2 assigned to user."
ConflictMsg(R) == IF R = 1 THEN "Seat 1 is already occupied."
                           ELSE "Seat 2 is already occupied."
DeniedMsg == "Unknown RFID tag - Access denied"

\* Entry k of hist is a loop() call that read a card
ScanAt(k) == k \in 2..Len(hist) /\ hist[k].kind = "scan"

\* Entries i and j are two scans with no scan between them
ConsecutiveScans(i, j) ==
  /\ ScanAt(i) /\ ScanAt(j) /\ i < j
  /\ \A m \in (i + 1)..(j - 1) : hist[m].kind \in Misses

\* No card has been read between setup() and entry i
FirstScan(i) == ScanAt(i) /\ \A m \in 2..(i - 1) : hist[m].kind \in Misses

\* ------------------------------------------------------------- properties

\* C1. Mutual exclusion: in every reachable state each seat has at most one
\* identity for which the owner test of the dispatcher (the ownership flag
\* set and compareUID with the stored owner) holds.
C1_MutualExclusion ==
  /\ Cardinality({id \in Tags : isRelay1Owner(relay, id)}) <= 1
  /\ Cardinality({id \in Tags : isRelay2Owner(relay, id)}) <= 1
  /\ Cardinality({id \in Tags : isLed1Owner(led, id)}) <= 1
  /\ Cardinality({id \in Tags : isLed2Owner(led, id)}) <= 1

\* Both seats are owned, each by exactly one identity
C1_Witness ==
  /\ Cardinality({id \in Tags : isRelay1Owner(relay, id)}) = 1
  /\ Cardinality({id \in Tags : isRelay2Owner(relay, id)}) = 1
  /\ Cardinality({id \in Tags : isLed1Owner(led, id)}) = 1
  /\ Cardinality({id \in Tags : isLed2Owner(led, id)}) = 1

\* C2. Owner iff occupied: after setup() and after every loop() call a seat
\* has an owner exactly when it is occupied.
C2_OwnerIffOccupied ==
  \A v \in OwnerVariants, R \in Seats : HasOwner(v, Now, R) = Occupied(v, Now, R)

\* Seat 1 was claimed and released again while seat 2 is held
C2_Witness ==
  /\ \E k \in 2..Len(hist) : Occupied("relay", hist[k], 1)
  /\ ~Occupied("relay", Now, 1) /\ ~HasOwner("relay", Now, 1)
  /\ Occupied("relay", Now, 2) /\ HasOwner("relay", Now, 2)

\* C3. Unauthorized never mutates: a loop() call that reads an identity
\* outside the AuthorizedSet leaves the occupied flag and the owner of every
\* seat as they were before the call.
C3_UnauthorizedNeverMutates ==
  \A k \in 2..Len(hist) :
    (ScanAt(k) /\ hist[k].uid \notin AuthorizedSet) =>
      /\ hist[k].relay = hist[k - 1].relay
      /\ hist[k].led = hist[k - 1].led
      /\ hist[k].tog = hist[k - 1].tog

\* An unauthorized identity was scanned while seat 1 was held and seat 2 free
C3_Witness ==
  /\ Len(hist) >= 3
  /\ ScanAt(Len(hist))
  /\ hist[Len(hist)].uid \notin AuthorizedSet
  /\ Occupied("relay", hist[Len(hist) - 1], 1)
  /\ ~Occupied("relay", hist[Len(hist) - 1], 2)
  /\ OwnerIs("relay", Now, 1, rfid1UID)

\* A flash sequence ran in the handler whose calls are out: the conflict
\* flash, or the flash of the unauthorized branch
FlashDone(out) ==
  \/ Said(out, ConflictMsg(1))
  \/ Said(out, ConflictMsg(2))
  \/ Said(out, DeniedMsg) /\ \E R \in Seats, v \in Variants : Wrote(out, PinOf(v, R))

\* Every actuator of variant v is ON exactly when its seat is occupied
FollowsLedger(v) ==
  \A R \in Seats : Actuator(v, Now, R) = LevelOf(Occupied(v, Now, R))

\* C5. Restoration guarantee: after a handler that ran a flash sequence,
\* every actuator it wrote is ON if and only if its seat is occupied.
C5_RestorationGuarantee ==
  \A v \in Variants, R \in Seats :
    (FlashDone(OutOf(v, Now)) /\ Wrote(OutOf(v, Now), PinOf(v, R))) =>
      Actuator(v, Now, R) = LevelOf(Occupied(v, Now, R))

\* C6. Actuator follows ledger: at the end of setup() and of every loop()
\* call each actuator pin is HIGH if and only if its seat is occupied.
C6_ActuatorFollowsLedger ==
  pc = "loop" => \A v \in Variants : FollowsLedger(v)

\* C7. Toggle under repetition: when an identity entitled to seat R is
\* scanned while R is free and the next scan is of the same identity, R is
\* occupied by it after the first scan and free after the second, and the
\* second scan reports the release and neither a claim nor a conflict.
C7_ToggleUnderRepetition ==
  \A i, j \in 2..Len(hist), R \in Seats, v \in Variants :
    ( /\ ConsecutiveScans(i, j)
      /\ hist[i].uid = EntitledTo(R)
      /\ hist[j].uid = hist[i].uid
      /\ ~Occupied(v, hist[i - 1], R) ) =>
        /\ Occupied(v, hist[i], R)
        /\ v \in OwnerVariants => OwnerIs(v, hist[i], R, hist[i].uid)
        /\ ~Occupied(v, hist[j], R)
        /\ v \in OwnerVariants => ~HasOwner(v, hist[j], R)
        /\ Said(OutOf(v, hist[j]), ReleaseMsg(R))
        /\ \A S \in Seats : /\ ~Said(OutOf(v, hist[j]), ClaimMsg(S))
                            /\ ~Said(OutOf(v, hist[j]), ConflictMsg(S))

\* Card 2 was scanned twice in a row with seat 2 free before, seat 1 held
C7_Witness ==
  \E i, j \in 2..Len(hist) :
    /\ ConsecutiveScans(i, j)
    /\ hist[i].uid = rfid2UID /\ hist[j].uid = rfid2UID
    /\ ~Occupied("relay", hist[i - 1], 2)
    /\ Occupied("relay", hist[i - 1], 1)
    /\ Occupied("relay", hist[i], 2)
    /\ ~Occupied("relay", hist[j], 2)

\* C8. Ownership round-trip: when the first scan after setup() is a claim
\* of seat R and the next scan is of the same identity, the seat is free
\* with no owner and its actuator is OFF, and the occupied flags, owner flags
\* and actuator levels of both seats are those setup() left.
C8_OwnershipRoundTrip ==
  \A i, j \in 2..Len(hist), R \in Seats, v \in Variants :
    ( /\ FirstScan(i)
      /\ ConsecutiveScans(i, j)
      /\ hist[i].uid = EntitledTo(R)
      /\ hist[j].uid = hist[i].uid ) =>
        /\ Occupied(v, hist[i], R)
        /\ Actuator(v, hist[i], R) = HIGH
        /\ ~Occupied(v, hist[j], R)
        /\ Actuator(v, hist[j], R) = LOW
        /\ v \in OwnerVariants => ~HasOwner(v, hist[j], R)
        /\ \A S \in Seats :
             /\ Occupied(v, hist[j], S) = Occupied(v, hist[1], S)
             /\ Actuator(v, hist[j], S) = Actuator(v, hist[1], S)
             /\ v \in OwnerVariants =>
                  HasOwner(v, hist[j], S) = HasOwner(v, hist[1], S)

\* Card 1 claimed seat 1 from the state after setup() and released it
C8_Witness ==
  \E i, j \in 2..Len(hist) :
    /\ FirstScan(i)
    /\ ConsecutiveScans(i, j)
    /\ hist[i].uid = rfid1UID /\ hist[j].uid = rfid1UID
    /\ Occupied("relay", hist[i], 1)
    /\ j = Len(hist)
    /\ ~Occupied("relay", Now, 1)
    /\ relayPin[RELAY_1_PIN] = LOW

\* The loop() calls up to entry k in which seat R of variant v went from free
\* to occupied, and the identity scanned in the latest of them
ClaimsUpTo(v, k, R) ==
  {m \in 2..k : ~Occupied(v, hist[m - 1], R) /\ Occupied(v, hist[m], R)}
Holder(v, k, R) ==
  LET S == ClaimsUpTo(v, k, R)
  IN hist[CHOOSE m \in S : \A n \in S : n <= m].uid

\* C9. Only the holder releases: a loop() call frees an occupied seat only
\* when it read the identity that holds the seat (the stored owner, where
\* the variant stores one).
C9_OnlyHolderReleases ==
  \A k \in 2..Len(hist), R \in Seats, v \in Variants :
    (Occupied(v, hist[k - 1], R) /\ ~Occupied(v, hist[k], R)) =>
      /\ ScanAt(k)
      /\ hist[k].uid = Holder(v, k - 1, R)
      /\ v \in OwnerVariants => OwnerIs(v, hist[k - 1], R, hist[k].uid)

\* Seat 2 was freed by its holder after other identities were scanned
\* while it was held
C9_Witness ==
  \E k \in 2..Len(hist) :
    /\ Occupied("relay", hist[k - 1], 2)
    /\ ~Occupied("relay", hist[k], 2)
    /\ \E m \in 2..(k - 1) :
         /\ ScanAt(m)
         /\ hist[m].uid # rfid2UID
         /\ Occupied("relay", hist[m - 1], 2)

\* C10. Ownership check precedes claim check: when the identity read owns a
\* seat, the loop() call releases that seat, reports the release, and takes
\* neither the claim nor the conflict nor the unauthorized path; the other
\* seat is left as it was.
C10_OwnershipCheckFirst ==
  \A k \in 2..Len(hist), R \in Seats, v \in OwnerVariants :
    (ScanAt(k) /\ OwnerIs(v, hist[k - 1], R, hist[k].uid)) =>
      /\ ~Occupied(v, hist[k], R)
      /\ ~HasOwner(v, hist[k], R)
      /\ Said(OutOf(v, hist[k]), ReleaseMsg(R))
      /\ ~Said(OutOf(v, hist[k]), DeniedMsg)
      /\ \A S \in Seats :
           /\ ~Said(OutOf(v, hist[k]), ClaimMsg(S))
           /\ ~Said(OutOf(v, hist[k]), ConflictMsg(S))
           /\ S # R => /\ Occupied(v, hist[k], S) = Occupied(v, hist[k - 1], S)
                       /\ HasOwner(v, hist[k], S) = HasOwner(v, hist[k - 1], S)
                       /\ OwnerBytes(v, hist[k], S) = OwnerBytes(v, hist[k - 1], S)

\* The owner of seat 1, itself an authorized card, was scanned while both
\* seats were held
C10_Witness ==
  \E k \in 2..Len(hist) :
    /\ ScanAt(k)
    /\ OwnerIs("relay", hist[k - 1], 1, hist[k].uid)
    /\ isAuthorizedCard(hist[k].uid)
    /\ Occupied("relay", hist[k - 1], 2)
    /\ Occupied("relay", hist[k], 2)

\* The seats of variant v that entry k of hist freed
FreedAt(v, k) ==
  {R \in Seats : Occupied(v, hist[k - 1], R) /\ ~Occupied(v, hist[k], R)}

\* C11. Single ownership per identity: in every reachable state no identity
\* passes the owner test of more than one seat, and no loop() call frees
\* more than one seat.
C11_SingleOwnership ==
  /\ \A id \in Tags :
       /\ ~(isRelay1Owner(relay, id) /\ isRelay2Owner(relay, id))
       /\ ~(isLed1Owner(led, id) /\ isLed2Owner(led, id))
  /\ \A k \in 2..Len(hist), v \in Variants : Cardinality(FreedAt(v, k)) <= 1

\* Both seats are held, by different identities, and one of them has just
\* been freed by a scan while the other stayed held
C11_Witness ==
  /\ Len(hist) >= 4
  /\ \E k \in 2..(Len(hist) - 1) :
       /\ OwnerIs("relay", hist[k], 1, rfid1UID)
       /\ OwnerIs("relay", hist[k], 2, rfid2UID)
  /\ ScanAt(Len(hist))
  /\ Cardinality(FreedAt("relay", Len(hist))) = 1
  /\ \E R \in Seats : Occupied("relay", Now, R)

\* A loop() call assigned seat R of variant v at entry k: it reported the
\* claim, or stored an owner, or switched the seat from free to occupied
AssignedAt(v, k, R) ==
  \/ Said(OutOf(v, hist[k]), ClaimMsg(R))
  \/ ~Occupied(v, hist[k - 1], R) /\ Occupied(v, hist[k], R)
  \/ v \in OwnerVariants /\
       \/ ~HasOwner(v, hist[k - 1], R) /\ HasOwner(v, hist[k], R)
       \/ OwnerBytes(v, hist[k - 1], R) # OwnerBytes(v, hist[k], R)

\* C12. Claim pre/postcondition: whenever a loop() call assigns seat R, R
\* was free before the call, and after it R is occupied, its stored owner is
\* byte for byte the identity read, and its actuator is ON.
C12_ClaimPrePost ==
  \A k \in 2..Len(hist), R \in Seats, v \in Variants :
    AssignedAt(v, k, R) =>
      /\ ScanAt(k)
      /\ ~Occupied(v, hist[k - 1], R)
      /\ Occupied(v, hist[k], R)
      /\ Actuator(v, hist[k], R) = HIGH
      /\ v \in OwnerVariants =>
           /\ ~HasOwner(v, hist[k - 1], R)
           /\ OwnerIs(v, hist[k], R, hist[k].uid)
           /\ \A b \in 1..4 : OwnerBytes(v, hist[k], R)[b] = hist[k].uid[b]

\* Seat 1 was claimed a second time, after a release, while seat 2 was held
C12_Witness ==
  \E i, k \in 2..Len(hist) :
    /\ i < k
    /\ AssignedAt("relay", i, 1)
    /\ AssignedAt("relay", k, 1)
    /\ Occupied("relay", hist[k], 2)
    /\ relayPin[RELAY_1_PIN] = HIGH

AllOccupiedMsg == "All seats are currently occupied."

\* Variant v wrote an actuator pin in the handler whose calls are out
WroteAny(v, out) == \E R \in Seats : Wrote(out, PinOf(v, R))

\* The unauthorized branch of variant v at entry k chose between the flash
\* and the "all occupied" feedback by whether a seat was free
BranchSelection(v, k) ==
  LET allOccupied == \A R \in Seats : Occupied(v, hist[k - 1], R)
      out == OutOf(v, hist[k])
  IN /\ Said(out, DeniedMsg)
     /\ WroteAny(v, out) <=> ~allOccupied
     /\ Said(out, AllOccupiedMsg) <=> allOccupied

\* C13. Unauthorized branch selection: a loop() call that reads an
\* unauthorized identity runs the flash sequence if and only if at least one
\* seat is free; when every seat is occupied it gives the "all occupied"
\* feedback and writes no actuator.
C13_UnauthorizedBranchSelection ==
  \A k \in 2..Len(hist), v \in Variants :
    (ScanAt(k) /\ hist[k].uid \notin AuthorizedSet) => BranchSelection(v, k)

\* The positions of out that hold the call named op
CallsOf(out, op) == {i \in DOMAIN out : out[i].op = op}

\* The handler whose calls are out ended the tag session once, after its
\* last actuator write and its last message
HaltedLast(out) ==
  /\ Cardinality(CallsOf(out, "PICC_HaltA")) = 1
  /\ \A h \in CallsOf(out, "PICC_HaltA") :
       \A i \in CallsOf(out, "digitalWrite") \cup CallsOf(out, "println") : i < h

\* C14. Halt on every branch: every loop() call that read an identity,
\* whichever branch it took, ends the tag session (PICC_HaltA) after the
\* branch's writes and messages and before it returns.
C14_HaltOnEveryBranch ==
  \A k \in 2..Len(hist), v \in Variants : ScanAt(k) => HaltedLast(OutOf(v, hist[k]))

\* Four scans took four branches: two claims, the "all occupied" denial and
\* a release, each ending the tag session
C14_Witness ==
  /\ Len(hist) = 5
  /\ \A k \in 2..5 : ScanAt(k) /\ HaltedLast(hist[k].relayOut)
  /\ \E a, b, c, d \in 2..5 :
       /\ Said(hist[a].relayOut, ClaimMsg(1))
       /\ Said(hist[b].relayOut, ClaimMsg(2))
       /\ Said(hist[c].relayOut, AllOccupiedMsg)
       /\ Said(hist[d].relayOut, ReleaseMsg(1))

\* C15. Read miss is a no-op: a loop() call in which no card is present or
\* the read fails makes no call (no message, no write, no reader call) and
\* leaves the globals and the actuator pins of every variant as they were.
C15_ReadMissNoOp ==
  \A k \in 2..Len(hist) :
    hist[k].kind \in Misses =>
      /\ hist[k].relay = hist[k - 1].relay
      /\ hist[k].relayPin = hist[k - 1].relayPin
      /\ hist[k].relayOut = <<>>
      /\ hist[k].led = hist[k - 1].led
      /\ hist[k].ledPin = hist[k - 1].ledPin
      /\ hist[k].ledOut = <<>>
      /\ hist[k].tog = hist[k - 1].tog
      /\ hist[k].togPin = hist[k - 1].togPin
      /\ hist[k].togOut = <<>>

\* With seat 1 held, a poll found no card and a poll failed to read; the
\* seat stayed held and the next poll read the card and released it
C15_Witness ==
  \E i \in 2..Len(hist) :
    /\ i + 3 = Len(hist)
    /\ Occupied("relay", hist[i], 1)
    /\ hist[i + 1].kind = NoCard
    /\ hist[i + 2].kind = ReadFail
    /\ Occupied("relay", hist[i + 2], 1)
    /\ hist[i + 2].relayPin[RELAY_1_PIN] = HIGH
    /\ ScanAt(i + 3)
    /\ ~Occupied("relay", hist[i + 3], 1)

\* The kinds and the uids of the loop() calls since setup(), in order
KindsSince == [k \in 1..(Len(hist) - 1) |-> hist[k + 1].kind]
UidsSince == [k \in 1..(Len(hist) - 1) |-> hist[k + 1].uid]

\* The reference scenario has run up to its n-th scan, the fourth being of
\* an identity outside the AuthorizedSet
ScenarioUpTo(n) ==
  /\ Len(hist) >= n + 1
  /\ \A k \in 1..n : KindsSince[k] = "scan"
  /\ n >= 1 => UidsSince[1] = rfid1UID
  /\ n >= 2 => UidsSince[2] = rfid2UID
  /\ n >= 3 => UidsSince[3] = rfid1UID
  /\ n >= 4 => UidsSince[4] \notin AuthorizedSet

\* Seat R of variant v in entry e is occupied by id / is free
OccupiedBy(v, e, R, id) ==
  Occupied(v, e, R) /\ (v \in OwnerVariants => OwnerIs(v, e, R, id))
Free(v, e, R) ==
  ~Occupied(v, e, R) /\ (v \in OwnerVariants => ~HasOwner(v, e, R))

\* C16. Reference scenario: from the state after setup(), the scans
\* [card 1, card 2, card 1, unauthorized] leave seat 1 occupied by card 1
\* after the first, seat 2 occupied by card 2 after the second, seat 1 free
\* after the third, and after the fourth nothing changed (seat 1 free, seat
\* 2 occupied by card 2) with the access-denied flash run and no "all
\* occupied" feedback.
C16_ReferenceScenario ==
  \A v \in Variants :
    /\ ScenarioUpTo(1) =>
         OccupiedBy(v, hist[2], 1, rfid1UID) /\ Free(v, hist[2], 2)
    /\ ScenarioUpTo(2) =>
         OccupiedBy(v, hist[3], 1, rfid1UID) /\ OccupiedBy(v, hist[3], 2, rfid2UID)
    /\ ScenarioUpTo(3) =>
         Free(v, hist[4], 1) /\ OccupiedBy(v, hist[4], 2, rfid2UID)
    /\ ScenarioUpTo(4) =>
         /\ Free(v, hist[5], 1) /\ OccupiedBy(v, hist[5], 2, rfid2UID)
         /\ hist[5].relay = hist[4].relay
         /\ hist[5].led = hist[4].led
         /\ hist[5].tog = hist[4].tog
         /\ Said(OutOf(v, hist[5]), DeniedMsg)
         /\ WroteAny(v, OutOf(v, hist[5]))
         /\ ~Said(OutOf(v, hist[5]), AllOccupiedMsg)

\* The four scans of the scenario have been made
C16_Witness ==
  /\ Len(hist) = 5
  /\ ScenarioUpTo(4)
  /\ ~relay.relay1On /\ relay.relay2On /\ relay.relay2Owner = rfid2UID

\* The seat is free, has no owner, and its actuator is off
FreeAndOff(v, e, R) == Free(v, e, R) /\ Actuator(v, e, R) = LOW

\* C17: initial state.  The globals start free and without owner, and once
\* setup() has run, self-test pulses included, every seat of every variant
\* is free with no owner and every actuator is off; this is so after every
\* reset, whatever was occupied when the reset came and whatever level the
\* pins had before setup().
C17_InitialState ==
  /\ pc = "boot" => relay = RelayInit /\ led = LedInit /\ tog = TogInit
  /\ Len(hist) >= 1 =>
       /\ hist[1].kind = "setup"
       /\ \A v \in Variants, R \in Seats : FreeAndOff(v, hist[1], R)
  /\ pc = "loop" /\ Len(hist) = 1 =>
       \A v \in Variants, R \in Seats : FreeAndOff(v, Now, R)

\* setup() has completed after a reset that came while a seat was occupied,
\* the self-test has pulsed both relays, and everything is free and off
C17_Witness ==
  /\ pc = "loop" /\ Len(hist) = 1
  /\ resetFrom = "occupied"
  /\ \E i, j \in 1..Len(relayOut) :
       /\ relayOut[i] = Wr(RELAY_1_PIN, HIGH)
       /\ relayOut[j] = Wr(RELAY_2_PIN, HIGH)
  /\ \A v \in Variants, R \in Seats : FreeAndOff(v, Now, R)

\* The branch whose calls are ev gave feedback on the serial line
Feedback(ev) == CallsOf(ev, "println") # {}

\* The blocking waits of a branch are at most those of a three-pulse flash
\* (an on-wait and an off-wait for each pulse)
FixedPulses(ev) == Cardinality(CallsOf(ev, "delay")) <= 2 * 3

\* The handler whose calls are ev ran to its last statement, from which
\* loop() returns to the caller that polls again
ReachedEnd(ev) ==
  /\ Len(ev) >= 3
  /\ SubSeq(ev, Len(ev) - 2, Len(ev)) = << HaltA, StopCrypto1, Dly(1000) >>

\* C18. Dispatch always completes: in every reachable state of the polling
\* loop and for every identity that can be read, each variant's dispatch is
\* defined, makes a bounded number of waits (the flash loops run a fixed
\* number of pulses), gives at least one feedback message on the branch
\* taken, leaves a well-formed ledger, and loop() runs to its last statement.
C18_DispatchCompletes ==
  pc = "loop" =>
    \A uid \in Tags :
      /\ Feedback(RelayDispatch(relay, uid).ev)
      /\ Feedback(LedDispatch(led, uid).ev)
      /\ Feedback(TogDispatch(tog, uid).ev)
      /\ FixedPulses(RelayDispatch(relay, uid).ev)
      /\ FixedPulses(LedDispatch(led, uid).ev)
      /\ FixedPulses(TogDispatch(tog, uid).ev)
      /\ ReachedEnd(RelayLoop(relay, uid).ev)
      /\ ReachedEnd(LedLoop(led, uid).ev)
      /\ ReachedEnd(TogLoop(tog, uid).ev)
      /\ DOMAIN RelayLoop(relay, uid).g = DOMAIN RelayInit
      /\ DOMAIN LedLoop(led, uid).g = DOMAIN LedInit
      /\ DOMAIN TogLoop(tog, uid).g = DOMAIN TogInit

\* Both seats are occupied, the last scan was processed to the end, and
\* the scans still possible from here cover a release of each seat and the
\* "all occupied" denial
C18_Witness ==
  /\ pc = "loop" /\ ScanAt(Len(hist))
  /\ ReachedEnd(relayOut)
  /\ relay.relay1On /\ relay.relay2On
  /\ Said(RelayDispatch(relay, rfid1UID).ev, ReleaseMsg(1))
  /\ Said(RelayDispatch(relay, rfid2UID).ev, ReleaseMsg(2))
  /\ Said(RelayDispatch(relay, zeroUID).ev, AllOccupiedMsg)

\* The handler whose calls are out made the debounce wait its last call,
\* after every actuator write (those of a flash included), every message
\* and the end of the tag session
DebouncedLast(out) ==
  /\ Len(out) >= 1
  /\ out[Len(out)] = Dly(1000)
  /\ \A i \in CallsOf(out, "digitalWrite") \cup CallsOf(out, "println")
             \cup CallsOf(out, "PICC_HaltA") \cup CallsOf(out, "PCD_StopCrypto1") :
       i < Len(out)

\* The scan at entry j started from the globals and pin levels that the
\* scan at entry i left when it returned
StartsFrom(i, j) ==
  /\ hist[j].relay = RelayLoop(hist[i].relay, hist[j].uid).g
  /\ hist[j].relayPin = ApplyWrites(hist[i].relayPin, hist[j].relayOut)
  /\ hist[j].led = LedLoop(hist[i].led, hist[j].uid).g
  /\ hist[j].ledPin = ApplyWrites(hist[i].ledPin, hist[j].ledOut)
  /\ hist[j].tog = TogLoop(hist[i].tog, hist[j].uid).g
  /\ hist[j].togPin = ApplyWrites(hist[i].togPin, hist[j].togOut)

\* C19. Sequential scans with debounce: of any two successive reads of an
\* identity, the first one's loop() call made all its writes, its flash if
\* any, its messages and the end of the tag session, and then waited the
\* 1000 ms debounce as its last call; the second read was processed from
\* exactly the globals and pin levels the first one left, so no read was
\* attempted while a dispatch, a flash or the debounce was in progress.
C19_SequentialScansDebounce ==
  \A i, j \in 2..Len(hist) :
    ConsecutiveScans(i, j) =>
      /\ \A v \in Variants : DebouncedLast(OutOf(v, hist[i]))
      /\ StartsFrom(i, j)

\* An unknown tag was flashed at, then after a read miss card 1 was read: the
\* flash and the debounce of the first scan were complete and the claim
\* started from what it left
C19_Witness ==
  \E i \in 2..Len(hist) :
    /\ i + 2 = Len(hist)
    /\ ConsecutiveScans(i, i + 2)
    /\ Said(hist[i].relayOut, DeniedMsg) /\ WroteAny("relay", hist[i].relayOut)
    /\ DebouncedLast(hist[i].relayOut)
    /\ Said(hist[i + 2].relayOut, ClaimMsg(1))

\* C20. Alert expiry: once an alert has been raised, it is inactive as soon
\* as a timer tick, or the raising of the next alert, has looked at the
\* clock at a time with now - raisedAt >= ALERT_DURATION: an alert that is
\* active was raised less than ALERT_DURATION before the clock was last
\* looked at, and the display shows the alert exactly while it is active.
C20_AlertExpiry ==
  /\ alertActive => checkedAt < alertRaisedAt + ALERT_DURATION
  /\ alertActive <=> display = "alert"

\* An alert was raised and a tick that came exactly ALERT_DURATION later
\* cleared it and gave the display back to the status view
C20_Witness ==
  /\ alertMessage \in AlertMessages
  /\ ~alertActive
  /\ display = "status"
  /\ checkedAt = alertRaisedAt + ALERT_DURATION

\* The last n elements of the sequence s
LastOf(s, n) == SubSeq(s, Len(s) - n + 1, Len(s))

\* min(K, number logged)
Kept(n) == IF n < K THEN n ELSE K

\* C21. Bounded event log: after any sequence of log operations the event
\* log holds at most K lines, and they are exactly the most recent
\* min(K, number logged) lines that were logged, in the order they were
\* logged; so a log into a full buffer drops the oldest line and no other.
C21_BoundedEventLog ==
  /\ Len(eventLog) <= K
  /\ eventLog = LastOf(diagOut, Kept(Len(diagOut)))

\* Two lines more than the capacity were logged: the buffer is full and the
\* first two lines logged, which differ from what is now oldest, are gone
C21_Witness ==
  /\ Len(diagOut) = K + 2
  /\ Len(eventLog) = K
  /\ eventLog[1] = diagOut[3]
  /\ diagOut[1] # diagOut[3] /\ diagOut[2] # diagOut[3]
  /\ eventLog[K] = diagOut[K + 2]

\* The identities a and b differ in some byte
Differ(a, b) == \E i \in 1..4 : a[i] # b[i]

\* C22. Identity equality: compareUID(a, b, 4) is true exactly when the
\* four bytes of a and b are pairwise equal; it is reflexive and symmetric;
\* and an identity that differs in some byte from the stored owner fails the
\* owner test, and one that differs in some byte from each registered card
\* fails the authorization test.
C22_IdentityEquality ==
  cmp.done =>
    /\ cmp.eq <=> ~Differ(cmpA, cmpB)
    /\ cmp.refl
    /\ cmp.sym <=> cmp.eq
    /\ Differ(cmpA, cmpB) => ~cmp.owner1 /\ ~cmp.owner2
    /\ ~Differ(cmpA, cmpB) => cmp.owner1 /\ cmp.owner2
    /\ cmp.auth <=> ~Differ(rfid1UID, cmpB) \/ ~Differ(rfid2UID, cmpB)

\* Card 1 and an identity that differs from it in the last byte only were
\* compared: not equal, not the owner, not authorized
C22_Witness ==
  /\ cmp.done
  /\ cmpA = rfid1UID /\ cmpB = <<19, 163, 80, 18>>
  /\ ~cmp.eq /\ ~cmp.sym /\ ~cmp.owner1 /\ ~cmp.auth

\* C23. Owner is always the entitled identity: in every reachable state of
\* the variants that store an owner, an occupied seat has its ownership flag
\* set and its stored owner is the card registered for that seat (rfid1UID
\* for seat 1, rfid2UID for seat 2); a set ownership flag never goes with
\* the bytes of an unauthorized identity or of the other seat's card.
C23_OwnerIsEntitled ==
  \A v \in OwnerVariants, R \in Seats :
    /\ Occupied(v, Now, R) => OwnerIs(v, Now, R, EntitledTo(R))
    /\ HasOwner(v, Now, R) => OwnerBytes(v, Now, R) = EntitledTo(R)
    /\ \A k \in 1..Len(hist) :
         HasOwner(v, hist[k], R) => OwnerBytes(v, hist[k], R) = EntitledTo(R)

\* An unauthorized tag was scanned while a seat was free, card 2 was scanned
\* before card 1, and both seats are now occupied, each by its own card
C23_Witness ==
  /\ Len(hist) = 4
  /\ ScanAt(2) /\ hist[2].uid = <<19, 163, 80, 18>>
  /\ ScanAt(3) /\ hist[3].uid = rfid2UID
  /\ ScanAt(4) /\ hist[4].uid = rfid1UID
  /\ \A v \in OwnerVariants, R \in Seats : OwnerIs(v, Now, R, EntitledTo(R))

\* The calls ev are those of a conflict branch
ConflictTaken(ev) == \E R \in Seats : Said(ev, ConflictMsg(R))

\* The owner test of seat R of the relay and led variants in the present state
IsOwnerNow(v, R, uid) ==
  CASE v = "relay" -> IF R = 1 THEN isRelay1Owner(relay, uid)
                               ELSE isRelay2Owner(relay, uid)
    [] v = "led" -> IF R = 1 THEN isLed1Owner(led, uid) ELSE isLed2Owner(led, uid)

\* C24. Conflict branch unreachable under the built-in registration (one
\* card per seat): no loop() call since setup() has taken the "Seat N is
\* already occupied" branch and none can from the present state, because
\* the card registered for an occupied seat always passes that seat's owner
\* test and is therefore handled by the release path.
C24_ConflictUnreachable ==
  /\ \A k \in 2..Len(hist), v \in OwnerVariants :
       ~ConflictTaken(OutOf(v, hist[k]))
  /\ pc = "loop" =>
       /\ \A uid \in Tags :
            /\ ~ConflictTaken(RelayDispatch(relay, uid).ev)
            /\ ~ConflictTaken(LedDispatch(led, uid).ev)
       /\ \A v \in OwnerVariants, R \in Seats :
            Occupied(v, Now, R) => IsOwnerNow(v, R, EntitledTo(R))

\* With both seats occupied, card 1 was scanned and took the release path,
\* and a second scan of card 2 from here would take it too
C24_Witness ==
  /\ pc = "loop" /\ Len(hist) = 4
  /\ \A R \in Seats : Occupied("relay", hist[3], R)
  /\ ScanAt(4) /\ hist[4].uid = rfid1UID
  /\ Said(relayOut, ReleaseMsg(1)) /\ ~ConflictTaken(relayOut)
  /\ Said(RelayDispatch(relay, rfid2UID).ev, ReleaseMsg(2))

\* The two variants agree on the occupied flag of every seat in entry e
SameFlags(a, b, e) == \A R \in Seats : Occupied(a, e, R) = Occupied(b, e, R)

\* C25. The ownership variant refines the toggle variant: run on the same
\* reads (card 1, card 2, unauthorized identities, read misses), the
\* ownership-tracking program of rfid.cpp and the plain toggle program of
\* part_000 have the same occupied flag for each seat after setup() and
\* after every loop() call.
C25_OwnershipRefinesToggle ==
  /\ SameFlags("relay", "toggle", Now)
  /\ \A k \in 1..Len(hist) : SameFlags("relay", "toggle", hist[k])

\* Card 1 claimed, an unauthorized tag was refused, card 2 claimed and
\* card 1 released: the flags of the two programs agree after each scan
\* and take different values along the way
C25_Witness ==
  /\ Len(hist) = 5
  /\ \A k \in 2..5 : ScanAt(k) /\ SameFlags("relay", "toggle", hist[k])
  /\ hist[2].uid = rfid1UID /\ hist[2].tog.led1On
  /\ hist[3].uid \notin AuthorizedSet
  /\ hist[4].uid = rfid2UID /\ hist[4].tog.led2On
  /\ hist[5].uid = rfid1UID /\ ~hist[5].tog.led1On /\ hist[5].relay.relay2On

\* The other seat
Other(R) == 3 - R

\* Seat R of variant v is the same in entries d and e: occupied flag,
\* ownership flag and owner where the variant stores them, actuator level
SameSeat(v, d, e, R) ==
  /\ Occupied(v, d, R) = Occupied(v, e, R)
  /\ Actuator(v, d, R) = Actuator(v, e, R)
  /\ v \in OwnerVariants =>
       /\ HasOwner(v, d, R) = HasOwner(v, e, R)
       /\ OwnerBytes(v, d, R) = OwnerBytes(v, e, R)

\* C26. Seat independence: a loop() call that read the card registered for
\* seat R, whatever branch it took, leaves the other seat's occupied flag,
\* ownership flag, stored owner and actuator level as they were, and what
\* it changes is on seat R only.
C26_SeatIndependence ==
  \A k \in 2..Len(hist), R \in Seats, v \in Variants :
    (ScanAt(k) /\ hist[k].uid = EntitledTo(R)) =>
      /\ SameSeat(v, hist[k - 1], hist[k], Other(R))
      /\ ~Wrote(OutOf(v, hist[k]), PinOf(v, Other(R)))

\* With seat 2 occupied by card 2, card 1 claimed seat 1 and then released
\* it; seat 2 stayed occupied by card 2 with its relay on throughout
C26_Witness ==
  /\ Len(hist) = 4
  /\ ScanAt(2) /\ hist[2].uid = rfid2UID
  /\ ScanAt(3) /\ hist[3].uid = rfid1UID /\ Said(hist[3].relayOut, ClaimMsg(1))
  /\ ScanAt(4) /\ hist[4].uid = rfid1UID /\ Said(hist[4].relayOut, ReleaseMsg(1))
  /\ \A k \in 2..4 :
       /\ OwnerIs("relay", hist[k], 2, rfid2UID)
       /\ Actuator("relay", hist[k], 2) = HIGH

====
